---- MODULE Spec2Model ----
(***************************************************************************)
(* A model of the personal finance tracker's data layer: StorageManager    *)
(* (js/storage.js), which keeps three collections in localStorage, and the *)
(* BudgetApp handlers (js/app.js) that call it.                            *)
(*                                                                         *)
(* A JavaScript object is a TLA+ record; a key the object does not have is *)
(* a field the record does not have.  A JavaScript value that may be null  *)
(* is a sequence of length 0 (null) or 1 (the value).  An instant (what    *)
(* new Date().toISOString() returns) is a natural number: the ISO format   *)
(* is fixed-width, so the order of the strings is the order of instants.   *)
(* A calendar date is <<year, month, day>>.                                *)
(*                                                                         *)
(* The medium fails in two ways: access to localStorage throws for the     *)
(* whole session (available = FALSE), or one setItem throws for lack of    *)
(* room (quotaOk = FALSE in that call).  An item may hold text that        *)
(* JSON.parse rejects (CorruptItem).                                       *)
(*                                                                         *)
(* No command on the transactions reads or writes the budgets or the       *)
(* categories, and the other way round; importData and clearAllData are    *)
(* the only ones that touch more than one collection.  A behaviour         *)
(* therefore directs its single-collection commands at one collection,     *)
(* workingOn, chosen at the start: this keeps the state space a sum over   *)
(* the collections instead of a product.                                   *)
(***************************************************************************)
EXTENDS Integers, Sequences, FiniteSets, TLC

VARIABLES
    localStorage,        \* key -> item: what the browser holds for the key
    available,           \* FALSE: every access to localStorage throws
    now,                 \* the wall clock, as read by new Date()
    editingTransaction,  \* BudgetApp.editingTransaction: an id or Null
    editingBudget,       \* BudgetApp.editingBudget: an id or Null
    workingOn,           \* the collection this session's saves and deletes go to
    inFlight,            \* tab -> the call the tab is in the middle of, or has ended
    last                 \* the last call: its name, argument and outcome

vars == <<localStorage, available, now, editingTransaction, editingBudget,
          workingOn, inFlight, last>>

\* The latest instant the model's clock reaches.
MaxClock == 1

\* The ids generateId() or a caller may produce.  generateId() is the time
\* followed by random digits: nothing in it looks at the ids in use, so it
\* may return any id, one that is stored included.
Ids == {"a", "b"}

\* BudgetApp's editingTransaction / editingBudget when nothing is edited.
Null == "null"

\* storageKeys: the three collections.
storageKeys == {"transactions", "budgets", "categories"}

----------------------------------------------------------------------------
\* JavaScript objects as records

Has(r, k) == k \in DOMAIN r

\* r.k = v
With(r, k, v) == [x \in DOMAIN r \cup {k} |-> IF x = k THEN v ELSE r[x]]

Range(s) == {s[i] : i \in 1..Len(s)}

\* Array.prototype.findIndex on the id; 0 stands for JavaScript's -1.
FindIndexById(s, id) ==
    IF \E i \in 1..Len(s) : Has(s[i], "id") /\ s[i].id = id
    THEN CHOOSE i \in 1..Len(s) :
            /\ Has(s[i], "id") /\ s[i].id = id
            /\ \A j \in 1..(i - 1) : ~(Has(s[j], "id") /\ s[j].id = id)
    ELSE 0

\* Array.prototype.find on the id: <<record>>, or << >> for undefined.
FindById(s, id) ==
    IF FindIndexById(s, id) = 0 THEN << >> ELSE <<s[FindIndexById(s, id)]>>

----------------------------------------------------------------------------
\* The storage medium

AbsentItem  == [kind |-> "absent"]
CorruptItem == [kind |-> "corrupt"]

\* JSON.stringify(data): the stored text, kept as the value it encodes.
Stringify(data) == [kind |-> "json", val |-> data]

\* The default category lists.
DefaultCategories ==
    [expense |-> <<"Food & Dining", "Transportation", "Shopping", "Entertainment",
                   "Bills & Utilities", "Healthcare", "Education", "Travel",
                   "Housing", "Insurance", "Personal Care", "Gifts & Donations",
                   "Other">>,
     income  |-> <<"Salary", "Freelance", "Business", "Investments",
                   "Rental Income", "Bonuses", "Other Income">>]

\* saveToStorage with a catch that reports success.
SaveToStorageReportsSuccess(ls, key, data, quotaOk) ==
    IF available /\ quotaOk
    THEN [storage |-> [ls EXCEPT ![key] = Stringify(data)], ret |-> TRUE]
    ELSE [storage |-> ls, ret |-> TRUE]

\* saveToStorage(key, data) on the storage ls.  quotaOk: setItem does not throw
\* for lack of room.  A throwing setItem leaves the item as it was.
SaveToStorage(ls, key, data, quotaOk) ==
    IF available /\ quotaOk
    THEN [storage |-> [ls EXCEPT ![key] = Stringify(data)], ret |-> TRUE]
    ELSE [storage |-> ls, ret |-> FALSE]

\* loadFromStorage(key) on the storage ls: <<value>>, or << >> for null (the
\* item is absent, getItem throws, or JSON.parse throws on corrupt text).
LoadFromStorage(ls, key) ==
    IF available /\ ls[key].kind = "json" THEN <<ls[key].val>> ELSE << >>

\* loadFromStorage(key) || []
OrEmptyArray(loaded) == IF Len(loaded) = 0 THEN << >> ELSE loaded[1]

GetTransactionsOf(ls) == OrEmptyArray(LoadFromStorage(ls, "transactions"))
GetBudgetsOf(ls)      == OrEmptyArray(LoadFromStorage(ls, "budgets"))
GetCategoriesOf(ls)   == OrEmptyArray(LoadFromStorage(ls, "categories"))

getTransactions == GetTransactionsOf(localStorage)
getBudgets      == GetBudgetsOf(localStorage)
getCategories   == GetCategoriesOf(localStorage)

getTransactionById(id) == FindById(getTransactions, id)
getBudgetById(id)      == FindById(getBudgets, id)

\* getBudgetByCategory(category): budgets.find on the category, <<budget>> or
\* << >> for undefined.
GetBudgetByCategory(ls, category) ==
    LET budgets == GetBudgetsOf(ls)
        matches == {i \in 1..Len(budgets) : budgets[i].category = category}
    IN  IF matches = {}
        THEN << >>
        ELSE <<budgets[CHOOSE i \in matches : \A j \in matches : i <= j]>>

getBudgetByCategory(category) == GetBudgetByCategory(localStorage, category)

\* categories.length === 0: true of the empty array only; a mapping
\* {expense, income} has no length.
LengthIsZero(categories) == DOMAIN categories = {}

\* initializeCategories() with the two default lists under each other's type.
InitializeCategoriesSwapsTypes(ls, quotaOk) ==
    IF LengthIsZero(GetCategoriesOf(ls))
    THEN SaveToStorage(ls, "categories",
                       [expense |-> DefaultCategories.income,
                        income  |-> DefaultCategories.expense], quotaOk).storage
    ELSE ls

\* initializeCategories() without the test of categories.length: the defaults
\* are written on every construction.
InitializeCategoriesAlways(ls, quotaOk) ==
    SaveToStorage(ls, "categories", DefaultCategories, quotaOk).storage

\* initializeCategories() on the storage ls.
InitializeCategories(ls, quotaOk) ==
    IF LengthIsZero(GetCategoriesOf(ls))
    THEN SaveToStorage(ls, "categories", DefaultCategories, quotaOk).storage
    ELSE ls

\* The instants a reading of the clock may return after the reading c.
Ticks(c) == {t \in {c, c + 1} : t <= MaxClock}

----------------------------------------------------------------------------
\* The Repository (StorageManager)

\* t.id === id, for a stored record t
IdIs(t, id) == Has(t, "id") /\ t.id = id

\* saveTransaction with the record written to the collection as it was before
\* the id and the timestamps were assigned.
SaveTransactionCallStoresUnstamped(ls, transaction, genId, c1, c2, quotaOk) ==
    LET transactions == GetTransactionsOf(ls)
        t1 == IF ~Has(transaction, "id")
              THEN With(With(transaction, "id", genId), "createdAt", c1)
              ELSE transaction
        t2 == With(t1, "updatedAt", c2)
        existingIndex == FindIndexById(transactions, t2.id)
        newList == IF existingIndex # 0
                   THEN [transactions EXCEPT ![existingIndex] = transaction]
                   ELSE Append(transactions, transaction)
        w == SaveToStorage(ls, "transactions", newList, quotaOk)
    IN  [storage |-> w.storage, obj |-> t2, ret |-> w.ret]

\* saveTransaction without the search for a record of the same id.
SaveTransactionCallAlwaysAppends(ls, transaction, genId, c1, c2, quotaOk) ==
    LET transactions == GetTransactionsOf(ls)
        t1 == IF ~Has(transaction, "id")
              THEN With(With(transaction, "id", genId), "createdAt", c1)
              ELSE transaction
        t2 == With(t1, "updatedAt", c2)
        w == SaveToStorage(ls, "transactions", Append(transactions, t2), quotaOk)
    IN  [storage |-> w.storage, obj |-> t2, ret |-> w.ret]

\* saveTransaction that stamps updatedAt on the object once the write is done.
SaveTransactionCallStampsWhenWritten(ls, transaction, genId, c1, c2, quotaOk) ==
    LET transactions == GetTransactionsOf(ls)
        t1 == IF ~Has(transaction, "id")
              THEN With(With(transaction, "id", genId), "createdAt", c1)
              ELSE transaction
        t2 == With(t1, "updatedAt", c2)
        existingIndex == FindIndexById(transactions, t2.id)
        newList == IF existingIndex # 0
                   THEN [transactions EXCEPT ![existingIndex] = t2]
                   ELSE Append(transactions, t2)
        w == SaveToStorage(ls, "transactions", newList, quotaOk)
    IN  [storage |-> w.storage, obj |-> IF w.ret THEN t2 ELSE t1, ret |-> w.ret]

\* saveTransaction(transaction) on the storage ls: genId is what generateId()
\* returns, c1 and c2 are the two readings of the clock.  obj is the caller's
\* object after the call, which the function writes to.
SaveTransactionCall(ls, transaction, genId, c1, c2, quotaOk) ==
    LET transactions == GetTransactionsOf(ls)
        t1 == IF ~Has(transaction, "id")
              THEN With(With(transaction, "id", genId), "createdAt", c1)
              ELSE transaction
        t2 == With(t1, "updatedAt", c2)
        existingIndex == FindIndexById(transactions, t2.id)
        newList == IF existingIndex # 0
                   THEN [transactions EXCEPT ![existingIndex] = t2]
                   ELSE Append(transactions, t2)
        w == SaveToStorage(ls, "transactions", newList, quotaOk)
    IN  [storage |-> w.storage, obj |-> t2, ret |-> w.ret]

\* saveBudget(budget), as saveTransaction.
SaveBudgetCall(ls, budget, genId, c1, c2, quotaOk) ==
    LET budgets == GetBudgetsOf(ls)
        b1 == IF ~Has(budget, "id")
              THEN With(With(budget, "id", genId), "createdAt", c1)
              ELSE budget
        b2 == With(b1, "updatedAt", c2)
        existingIndex == FindIndexById(budgets, b2.id)
        newList == IF existingIndex # 0
                   THEN [budgets EXCEPT ![existingIndex] = b2]
                   ELSE Append(budgets, b2)
        w == SaveToStorage(ls, "budgets", newList, quotaOk)
    IN  [storage |-> w.storage, obj |-> b2, ret |-> w.ret]

\* deleteTransaction by splice(findIndex(...), 1): with no record of the id,
\* findIndex is -1 and the splice removes the last record.
DeleteTransactionCallSplices(ls, transactionId, quotaOk) ==
    LET transactions == GetTransactionsOf(ls)
        i == FindIndexById(transactions, transactionId)
        at == IF i = 0 THEN Len(transactions) ELSE i
    IN  SaveToStorage(ls, "transactions",
                      [j \in 1..(Len(transactions) - (IF Len(transactions) = 0 THEN 0 ELSE 1)) |->
                          IF j < at THEN transactions[j] ELSE transactions[j + 1]],
                      quotaOk)

\* deleteTransaction(transactionId)
DeleteTransactionCall(ls, transactionId, quotaOk) ==
    SaveToStorage(ls, "transactions",
                  SelectSeq(GetTransactionsOf(ls), LAMBDA t : ~IdIs(t, transactionId)),
                  quotaOk)

\* deleteBudget(budgetId)
DeleteBudgetCall(ls, budgetId, quotaOk) ==
    SaveToStorage(ls, "budgets",
                  SelectSeq(GetBudgetsOf(ls), LAMBDA b : ~IdIs(b, budgetId)),
                  quotaOk)

\* saveCategories(categories)
SaveCategoriesCall(ls, categories, quotaOk) ==
    SaveToStorage(ls, "categories", categories, quotaOk)

\* importData writing "data.key || []" whether or not the snapshot has the key.
ImportKeyWritesMissing(ls, data, key, q) ==
    IF Has(data, key)
    THEN SaveToStorage(ls, key, data[key], q[key]).storage
    ELSE SaveToStorage(ls, key, << >>, TRUE).storage

\* One "if (data.key) saveToStorage(key, data.key)" of importData: the write
\* is attempted when the snapshot has the key, and its result is dropped.
ImportKey(ls, data, key, q) ==
    IF Has(data, key) THEN SaveToStorage(ls, key, data[key], q[key]).storage ELSE ls

\* The keys of the snapshot whose write failed.
FailedWrites(data, q) ==
    {key \in DOMAIN data : ~(available /\ q[key])}

\* importData that puts back what was stored when one of its writes fails.
ImportDataCallRollsBack(ls, data, q) ==
    LET s1 == ImportKey(ls, data, "transactions", q)
        s2 == ImportKey(s1, data, "budgets", q)
        s3 == ImportKey(s2, data, "categories", q)
        failed == \E key \in DOMAIN data : ~SaveToStorage(ls, key, data[key], q[key]).ret
    IN  [storage |-> IF failed THEN ls ELSE s3, ret |-> TRUE]

\* importData(data): q[key] is quotaOk of the write under the snapshot's key.
\* saveToStorage catches its own errors, so the catch of importData is
\* reached only by a data that is null, which no snapshot here is.
ImportDataCall(ls, data, q) ==
    LET s1 == ImportKey(ls, data, "transactions", q)
        s2 == ImportKey(s1, data, "budgets", q)
        s3 == ImportKey(s2, data, "categories", q)
    IN  [storage |-> s3, ret |-> TRUE]

\* clearAllData() without the removeItem of the categories.
ClearAllDataCallKeepsCategories(ls, quotaOk) ==
    IF ~available
    THEN [storage |-> ls, ret |-> "throw"]
    ELSE [storage |-> InitializeCategories(
                          [key \in storageKeys |->
                              IF key = "categories" THEN ls[key] ELSE AbsentItem],
                          quotaOk),
          ret |-> "void"]

\* clearAllData(): localStorage.removeItem is called outside any try, so an
\* unavailable medium makes the call throw before anything is removed.
ClearAllDataCall(ls, quotaOk) ==
    IF ~available
    THEN [storage |-> ls, ret |-> "throw"]
    ELSE [storage |-> InitializeCategories([key \in storageKeys |-> AbsentItem], quotaOk),
          ret |-> "void"]

Bool(b) == IF b THEN "true" ELSE "false"

----------------------------------------------------------------------------
\* What callers pass in

\* What the transaction form yields (handleTransactionSubmit).
TransactionForms ==
    {[type |-> "expense", amount |-> 50, category |-> "Food",
      description |-> "lunch", date |-> <<2024, 1, 5>>],
     [type |-> "income", amount |-> 1000, category |-> "Salary",
      description |-> "pay", date |-> <<2024, 1, 10>>]}

\* What the budget form yields (handleBudgetSubmit).
BudgetForms ==
    {[category |-> "Food", amount |-> 100, period |-> "monthly",
      startDate |-> <<2024, 1, 1>>],
     [category |-> "Salary", amount |-> 1200, period |-> "annual",
      startDate |-> <<2023, 6, 1>>]}

\* The record r with the fields of the form f written over it.
Overwrite(r, f) ==
    [x \in DOMAIN r \cup DOMAIN f |-> IF x \in DOMAIN f THEN f[x] ELSE r[x]]

\* The fields of the object that the caller filled in.
Payload(record) ==
    [k \in DOMAIN record \ {"id", "createdAt", "updatedAt"} |-> record[k]]

\* The objects a caller passes to a save: a form's record; a form's record
\* with an id of the caller's; a record read from the collection and changed.
SaveArgs(forms, stored) ==
    forms
    \cup {With(f, "id", id) : f \in forms, id \in Ids}
    \cup {Overwrite(r, f) : r \in Range(stored), f \in forms}

\* Records of an exported file; its two transactions share an id.
ExportedTransaction(form) ==
    Overwrite([id |-> "a", createdAt |-> 0, updatedAt |-> 0], form)

ExportedBudget(form) ==
    Overwrite([id |-> "b", createdAt |-> 0, updatedAt |-> 0], form)

\* The transactions of an exported file: none, or two that share an id.
SnapshotTransactions ==
    {<< >>}
    \cup {<<ExportedTransaction(p[1]), ExportedTransaction(p[2])>> :
             p \in {q \in TransactionForms \X TransactionForms : q[1] # q[2]}}

\* The budgets of an exported file: two that share an id.
SnapshotBudgets ==
    {<<ExportedBudget(p[1]), ExportedBudget(p[2])>> :
             p \in {q \in BudgetForms \X BudgetForms : q[1] # q[2]}}

CustomCategories == [expense |-> <<"Food">>, income |-> <<"Salary">>]

\* What a caller passes to saveCategories: a mapping, or an empty array.
CategoryArgs == {CustomCategories, << >>}

\* The snapshots handed to importData: any of the three keys may be missing.
Snapshots ==
    UNION {
        {[k \in keys |-> CASE k = "transactions" -> t
                           [] k = "budgets" -> b
                           [] OTHER -> c] :
            t \in SnapshotTransactions, b \in SnapshotBudgets, c \in {CustomCategories}}
        : keys \in SUBSET storageKeys}

----------------------------------------------------------------------------
\* The state after the page has loaded: an untouched or damaged medium, over
\* which the constructor has run.

\* The browser's tabs that have the page open: they share localStorage.
Tabs == {"tab1", "tab2"}

\* The frame of a tab that is in no call of the Repository.
IdleFrame == [pc |-> "idle"]

Init ==
    /\ available \in BOOLEAN
    /\ now = 0
    /\ editingTransaction = Null
    /\ editingBudget = Null
    /\ \E item \in {AbsentItem, CorruptItem}, quotaOk \in BOOLEAN :
          /\ localStorage = InitializeCategories([key \in storageKeys |-> item], quotaOk)
          /\ last = [op |-> "constructor", quotaOk |-> quotaOk, ret |-> "void"]
    /\ workingOn \in storageKeys
    /\ inFlight = [tab \in Tabs |-> IdleFrame]

\* new StorageManager() and new BudgetApp() on a reload of the page.
Constructor ==
    /\ \E quotaOk \in BOOLEAN :
          /\ localStorage' = InitializeCategories(localStorage, quotaOk)
          /\ last' = [op |-> "constructor", quotaOk |-> quotaOk, ret |-> "void"]
    /\ editingTransaction' = Null
    /\ editingBudget' = Null
    /\ UNCHANGED <<available, now, workingOn, inFlight>>

\* What generateId() may return for the object record: any id; it is not
\* called for an object that has an id.
GeneratedIds(record) == IF Has(record, "id") THEN {record.id} ELSE Ids

\* The readings <<c1, c2>> of the clock in a save of the object record: c1 for
\* createdAt, read only for an object without id, and c2 for updatedAt.
ClockReadings(record) ==
    {c \in Ticks(now) \X (0..MaxClock) :
        /\ c[2] \in Ticks(c[1])
        /\ Has(record, "id") => c[1] = now}

\* storageManager.saveTransaction(transaction)
SaveTransactionStep(transaction, genId, c1, c2, quotaOk) ==
    LET r == SaveTransactionCall(localStorage, transaction, genId, c1, c2, quotaOk)
    IN  /\ workingOn = "transactions"
        /\ localStorage' = r.storage
        /\ now' = c2
        /\ last' = [op |-> "saveTransaction", input |-> Payload(transaction),
                    hadId |-> Has(transaction, "id"),
                    id |-> r.obj.id,
                    quotaOk |-> quotaOk, ret |-> Bool(r.ret)]
        /\ UNCHANGED <<available, editingTransaction, editingBudget, workingOn, inFlight>>

SaveTransaction ==
    \E transaction \in SaveArgs(TransactionForms, getTransactions),
       quotaOk \in BOOLEAN :
      \E genId \in GeneratedIds(transaction), c \in ClockReadings(transaction) :
        SaveTransactionStep(transaction, genId, c[1], c[2], quotaOk)

\* storageManager.saveBudget(budget)
SaveBudgetStep(budget, genId, c1, c2, quotaOk) ==
    LET r == SaveBudgetCall(localStorage, budget, genId, c1, c2, quotaOk)
    IN  /\ workingOn = "budgets"
        /\ localStorage' = r.storage
        /\ now' = c2
        /\ last' = [op |-> "saveBudget", input |-> Payload(budget),
                    hadId |-> Has(budget, "id"),
                    id |-> r.obj.id,
                    quotaOk |-> quotaOk, ret |-> Bool(r.ret)]
        /\ UNCHANGED <<available, editingTransaction, editingBudget, workingOn, inFlight>>

SaveBudget ==
    \E budget \in SaveArgs(BudgetForms, getBudgets), quotaOk \in BOOLEAN :
      \E genId \in GeneratedIds(budget), c \in ClockReadings(budget) :
        SaveBudgetStep(budget, genId, c[1], c[2], quotaOk)

\* storageManager.deleteTransaction(transactionId)
DeleteTransaction ==
    /\ workingOn = "transactions"
    /\ \E transactionId \in Ids, quotaOk \in BOOLEAN :
        LET r == DeleteTransactionCall(localStorage, transactionId, quotaOk)
        IN  /\ localStorage' = r.storage
            /\ last' = [op |-> "deleteTransaction", id |-> transactionId,
                        quotaOk |-> quotaOk, ret |-> Bool(r.ret)]
            /\ UNCHANGED <<available, now, editingTransaction, editingBudget, workingOn, inFlight>>

\* storageManager.deleteBudget(budgetId)
DeleteBudget ==
    /\ workingOn = "budgets"
    /\ \E budgetId \in Ids, quotaOk \in BOOLEAN :
        LET r == DeleteBudgetCall(localStorage, budgetId, quotaOk)
        IN  /\ localStorage' = r.storage
            /\ last' = [op |-> "deleteBudget", id |-> budgetId,
                        quotaOk |-> quotaOk, ret |-> Bool(r.ret)]
            /\ UNCHANGED <<available, now, editingTransaction, editingBudget, workingOn, inFlight>>

\* storageManager.saveCategories(categories)
SaveCategories ==
    /\ workingOn = "categories"
    /\ \E categories \in CategoryArgs, quotaOk \in BOOLEAN :
        LET r == SaveCategoriesCall(localStorage, categories, quotaOk)
        IN  /\ localStorage' = r.storage
            /\ last' = [op |-> "saveCategories", quotaOk |-> quotaOk,
                        ret |-> Bool(r.ret)]
            /\ UNCHANGED <<available, now, editingTransaction, editingBudget, workingOn, inFlight>>

\* storageManager.importData(data)
ImportData ==
    \E data \in Snapshots :
      \E q \in [DOMAIN data -> BOOLEAN] :
        LET r == ImportDataCall(localStorage, data, q)
        IN  /\ localStorage' = r.storage
            /\ last' = [op |-> "importData", keys |-> DOMAIN data, data |-> data,
                        failed |-> FailedWrites(data, q), ret |-> Bool(r.ret)]
            /\ UNCHANGED <<available, now, editingTransaction, editingBudget, workingOn, inFlight>>

\* storageManager.clearAllData()
ClearAllData ==
    \E quotaOk \in BOOLEAN :
        LET r == ClearAllDataCall(localStorage, quotaOk)
        IN  /\ localStorage' = r.storage
            /\ last' = [op |-> "clearAllData", quotaOk |-> quotaOk, ret |-> r.ret]
            /\ UNCHANGED <<available, now, editingTransaction, editingBudget, workingOn, inFlight>>

\* The Repository's single-record commands and its reset.
Next ==
    \/ Constructor
    \/ SaveTransaction
    \/ SaveBudget
    \/ DeleteTransaction
    \/ DeleteBudget
    \/ SaveCategories
    \/ ClearAllData

Spec == Init /\ [][Next]_vars

\* The Repository's bulk commands, and the deletes that follow an import.
BulkNext ==
    \/ Constructor
    \/ ImportData
    \/ ClearAllData
    \/ DeleteTransaction
    \/ DeleteBudget
    \/ SaveCategories

BulkSpec == Init /\ [][BulkNext]_vars

----------------------------------------------------------------------------
\* Two tabs of the browser on the same localStorage.  A call of the
\* Repository is synchronous within its tab, but nothing orders the getItem
\* and the setItem of one tab against those of the other: a save is a read
\* of the collection followed, later, by a write of the whole collection.

\* saveTransaction from its second statement on, with a write that reads the
\* collection again instead of using the array read at the start.
SaveTransactionWriteBackRereads(ls, transactions, transaction, genId, c1, c2, quotaOk) ==
    SaveTransactionCall(ls, transaction, genId, c1, c2, quotaOk)

\* saveTransaction from its second statement on: transactions is the array
\* that getTransactions() returned at the start of the call, ls the storage
\* at the time of the write.
SaveTransactionWriteBack(ls, transactions, transaction, genId, c1, c2, quotaOk) ==
    LET t1 == IF ~Has(transaction, "id")
              THEN With(With(transaction, "id", genId), "createdAt", c1)
              ELSE transaction
        t2 == With(t1, "updatedAt", c2)
        existingIndex == FindIndexById(transactions, t2.id)
        newList == IF existingIndex # 0
                   THEN [transactions EXCEPT ![existingIndex] = t2]
                   ELSE Append(transactions, t2)
        w == SaveToStorage(ls, "transactions", newList, quotaOk)
    IN  [storage |-> w.storage, obj |-> t2, ret |-> w.ret]

\* What the user of each tab enters in the transaction form.
TabForms ==
    [tab \in Tabs |->
        IF tab = "tab1"
        THEN [type |-> "expense", amount |-> 50, category |-> "Food",
              description |-> "lunch", date |-> <<2024, 1, 5>>]
        ELSE [type |-> "income", amount |-> 1000, category |-> "Salary",
              description |-> "pay", date |-> <<2024, 1, 10>>]]

\* The tab is in no call: it may start one.
BetweenCalls(tab) == inFlight[tab].pc \in {"idle", "done"}

\* const transactions = this.getTransactions(), in saveTransaction(transaction)
SaveTransactionRead(tab) ==
    /\ workingOn = "transactions"
    /\ BetweenCalls(tab)
    /\ inFlight' = [inFlight EXCEPT ![tab] =
              [pc |-> "read", op |-> "saveTransaction",
               transactions |-> getTransactions, arg |-> TabForms[tab]]]
    /\ last' = [op |-> "saveTransaction (getTransactions)", ret |-> "void"]
    /\ UNCHANGED <<localStorage, available, now, editingTransaction, editingBudget,
                   workingOn>>

\* The rest of saveTransaction(transaction), to the return.
SaveTransactionWrite(tab) ==
    /\ workingOn = "transactions"
    /\ inFlight[tab].pc = "read" /\ inFlight[tab].op = "saveTransaction"
    /\ \E quotaOk \in BOOLEAN :
        \E genId \in GeneratedIds(inFlight[tab].arg),
           c \in ClockReadings(inFlight[tab].arg) :
          LET r == SaveTransactionWriteBack(localStorage, inFlight[tab].transactions,
                                            inFlight[tab].arg, genId, c[1], c[2], quotaOk)
          IN  /\ localStorage' = r.storage
              /\ now' = c[2]
              /\ inFlight' = [inFlight EXCEPT ![tab] =
                    [pc |-> "done", op |-> "saveTransaction",
                     id |-> r.obj.id, ret |-> r.ret]]
              /\ last' = [op |-> "saveTransaction (return)", ret |-> Bool(r.ret)]
    /\ UNCHANGED <<available, editingTransaction, editingBudget, workingOn>>

\* Two tabs saving transactions.
TabsNext ==
    \E tab \in Tabs :
        \/ SaveTransactionRead(tab)
        \/ SaveTransactionWrite(tab)

TabsSpec == Init /\ [][TabsNext]_vars

----------------------------------------------------------------------------
\* The application (BudgetApp)

\* openTransactionModal(type)
OpenTransactionModal ==
    /\ workingOn = "transactions"
    /\ editingTransaction' = Null
    /\ last' = [op |-> "openTransactionModal", ret |-> "void"]
    /\ UNCHANGED <<localStorage, available, now, editingBudget, workingOn, inFlight>>

\* openBudgetModal()
OpenBudgetModal ==
    /\ workingOn = "budgets"
    /\ editingBudget' = Null
    /\ last' = [op |-> "openBudgetModal", ret |-> "void"]
    /\ UNCHANGED <<localStorage, available, now, editingTransaction, workingOn, inFlight>>

\* closeModals()
CloseModals ==
    /\ editingTransaction' = Null
    /\ editingBudget' = Null
    /\ last' = [op |-> "closeModals", ret |-> "void"]
    /\ UNCHANGED <<localStorage, available, now, workingOn, inFlight>>

\* editTransaction(transactionId): returns early when no such record is stored.
EditTransaction ==
    /\ workingOn = "transactions"
    /\ \E transactionId \in Ids :
        /\ editingTransaction' =
              IF getTransactionById(transactionId) = << >>
              THEN editingTransaction ELSE transactionId
        /\ last' = [op |-> "editTransaction", id |-> transactionId, ret |-> "void"]
    /\ UNCHANGED <<localStorage, available, now, editingBudget, workingOn, inFlight>>

\* editBudget(budgetId): returns early when no such record is stored.
EditBudget ==
    /\ workingOn = "budgets"
    /\ \E budgetId \in Ids :
        /\ editingBudget' =
              IF getBudgetById(budgetId) = << >> THEN editingBudget ELSE budgetId
        /\ last' = [op |-> "editBudget", id |-> budgetId, ret |-> "void"]
    /\ UNCHANGED <<localStorage, available, now, editingTransaction, workingOn, inFlight>>

\* The object handleTransactionSubmit / handleBudgetSubmit builds: the form's
\* fields, and the id of the record being edited if there is one.
SubmittedObject(form, editing) ==
    IF editing # Null THEN With(form, "id", editing) ELSE form

\* handleTransactionSubmit without the closeModals() after a successful save.
HandleTransactionSubmitStepStaysOpen(form, genId, c1, c2, quotaOk) ==
    LET transaction == SubmittedObject(form, editingTransaction)
        r == SaveTransactionCall(localStorage, transaction, genId, c1, c2, quotaOk)
    IN  /\ workingOn = "transactions"
        /\ localStorage' = r.storage
        /\ now' = c2
        /\ last' = [op |-> "handleTransactionSubmit",
                    input |-> Payload(transaction),
                    hadId |-> Has(transaction, "id"),
                    id |-> r.obj.id,
                    quotaOk |-> quotaOk, ret |-> Bool(r.ret)]
        /\ UNCHANGED <<available, editingTransaction, editingBudget, workingOn, inFlight>>

\* handleTransactionSubmit(e): a successful save closes the modals.
HandleTransactionSubmitStep(form, genId, c1, c2, quotaOk) ==
    LET transaction == SubmittedObject(form, editingTransaction)
        r == SaveTransactionCall(localStorage, transaction, genId, c1, c2, quotaOk)
    IN  /\ workingOn = "transactions"
        /\ localStorage' = r.storage
        /\ now' = c2
        /\ editingTransaction' = IF r.ret THEN Null ELSE editingTransaction
        /\ editingBudget' = IF r.ret THEN Null ELSE editingBudget
        /\ last' = [op |-> "handleTransactionSubmit",
                    input |-> Payload(transaction),
                    hadId |-> Has(transaction, "id"),
                    id |-> r.obj.id,
                    quotaOk |-> quotaOk, ret |-> Bool(r.ret)]
        /\ UNCHANGED <<available, workingOn, inFlight>>

HandleTransactionSubmit ==
    \E form \in TransactionForms, quotaOk \in BOOLEAN :
      \E genId \in GeneratedIds(SubmittedObject(form, editingTransaction)),
         c \in ClockReadings(SubmittedObject(form, editingTransaction)) :
        HandleTransactionSubmitStep(form, genId, c[1], c[2], quotaOk)

\* handleBudgetSubmit(e): a successful save closes the modals.
HandleBudgetSubmitStep(form, genId, c1, c2, quotaOk) ==
    LET budget == SubmittedObject(form, editingBudget)
        r == SaveBudgetCall(localStorage, budget, genId, c1, c2, quotaOk)
    IN  /\ workingOn = "budgets"
        /\ localStorage' = r.storage
        /\ now' = c2
        /\ editingTransaction' = IF r.ret THEN Null ELSE editingTransaction
        /\ editingBudget' = IF r.ret THEN Null ELSE editingBudget
        /\ last' = [op |-> "handleBudgetSubmit",
                    input |-> Payload(budget),
                    hadId |-> Has(budget, "id"),
                    id |-> r.obj.id,
                    quotaOk |-> quotaOk, ret |-> Bool(r.ret)]
        /\ UNCHANGED <<available, workingOn, inFlight>>

HandleBudgetSubmit ==
    \E form \in BudgetForms, quotaOk \in BOOLEAN :
      \E genId \in GeneratedIds(SubmittedObject(form, editingBudget)),
         c \in ClockReadings(SubmittedObject(form, editingBudget)) :
        HandleBudgetSubmitStep(form, genId, c[1], c[2], quotaOk)

\* BudgetApp.deleteTransaction that deletes before it asks.
AppDeleteTransactionBeforeConfirm ==
    /\ workingOn = "transactions"
    /\ \E transactionId \in Ids, confirmed \in BOOLEAN, quotaOk \in BOOLEAN :
        LET r == DeleteTransactionCall(localStorage, transactionId, quotaOk)
        IN  /\ localStorage' = r.storage
            /\ last' = [op |-> "BudgetApp.deleteTransaction", id |-> transactionId,
                        confirmed |-> confirmed,
                        ret |-> Bool(r.ret)]
    /\ UNCHANGED <<available, now, editingTransaction, editingBudget, workingOn, inFlight>>

\* BudgetApp.deleteTransaction(transactionId): confirmed is the user's answer
\* to confirm(); the Repository is called only when it is true.
AppDeleteTransaction ==
    /\ workingOn = "transactions"
    /\ \E transactionId \in Ids, confirmed \in BOOLEAN, quotaOk \in BOOLEAN :
        LET r == DeleteTransactionCall(localStorage, transactionId, quotaOk)
        IN  /\ localStorage' = IF confirmed THEN r.storage ELSE localStorage
            /\ last' = [op |-> "BudgetApp.deleteTransaction", id |-> transactionId,
                        confirmed |-> confirmed,
                        ret |-> IF confirmed THEN Bool(r.ret) ELSE "void"]
    /\ UNCHANGED <<available, now, editingTransaction, editingBudget, workingOn, inFlight>>

\* BudgetApp.deleteBudget(budgetId)
AppDeleteBudget ==
    /\ workingOn = "budgets"
    /\ \E budgetId \in Ids, confirmed \in BOOLEAN, quotaOk \in BOOLEAN :
        LET r == DeleteBudgetCall(localStorage, budgetId, quotaOk)
        IN  /\ localStorage' = IF confirmed THEN r.storage ELSE localStorage
            /\ last' = [op |-> "BudgetApp.deleteBudget", id |-> budgetId,
                        confirmed |-> confirmed,
                        ret |-> IF confirmed THEN Bool(r.ret) ELSE "void"]
    /\ UNCHANGED <<available, now, editingTransaction, editingBudget, workingOn, inFlight>>

\* What the user can do in the application.
AppNext ==
    \/ Constructor
    \/ OpenTransactionModal
    \/ OpenBudgetModal
    \/ CloseModals
    \/ EditTransaction
    \/ EditBudget
    \/ HandleTransactionSubmit
    \/ HandleBudgetSubmit
    \/ AppDeleteTransaction
    \/ AppDeleteBudget

AppSpec == Init /\ [][AppNext]_vars

----------------------------------------------------------------------------
\* Numbers.  An amount is a JavaScript Number: a binary floating-point value,
\* and every + or - gives the representable value nearest to the exact
\* result, the one with the even significand when two are as near.  The
\* amounts here are whole multiples of the smallest amount.

\* The width of the significand, in bits (53 in a Number): every whole
\* number up to 2^SignificandBits is a Number, and above it only every
\* second, then every fourth.
SignificandBits == 11

\* The largest whole number up to which every whole number is a Number.
MaxExact == 2^SignificandBits

\* The distance between the Numbers around the whole number x >= 0.
RECURSIVE Spacing(_)
Spacing(x) == IF x < MaxExact THEN 1 ELSE 2 * Spacing(x \div 2)

\* The Number nearest to the whole number x, ties to the even significand.
RoundToNumber(x) ==
    LET magnitude == IF x < 0 THEN -x ELSE x
        spacing == Spacing(magnitude)
        below == (magnitude \div spacing) * spacing
        rest == magnitude - below
        nearest == IF 2 * rest < spacing THEN below
                   ELSE IF 2 * rest > spacing THEN below + spacing
                   ELSE IF (magnitude \div spacing) % 2 = 0 THEN below
                   ELSE below + spacing
    IN  IF x < 0 THEN -nearest ELSE nearest

\* a + b and a - b of two Numbers
NumberAdd(a, b) == RoundToNumber(a + b)
NumberSubtract(a, b) == RoundToNumber(a - b)

----------------------------------------------------------------------------
\* Dates.  A Date object is its time value, here in hours since 1970-01-01
\* 00:00 UTC.  The time zone tz of the browser is the number of hours its
\* local time is ahead of UTC.

\* The time zones a browser may be in.
TimeZones == {-5, 0, 5}

\* The number of the day <<y, m, d>>, counted from 1970-01-01 (MakeDay for a
\* month 1..12 and a day of that month).
DaysFromCivil(date) ==
    LET y   == IF date[2] <= 2 THEN date[1] - 1 ELSE date[1]
        era == y \div 400
        yoe == y - era * 400
        mp  == IF date[2] > 2 THEN date[2] - 3 ELSE date[2] + 9
        doy == (153 * mp + 2) \div 5 + date[3] - 1
        doe == yoe * 365 + yoe \div 4 - yoe \div 100 + doy
    IN  era * 146097 + doe - 719468

\* The day <<y, m, d>> of the day number z (YearFromTime, MonthFromTime,
\* DateFromTime).
CivilFromDays(z) ==
    LET z1  == z + 719468
        era == z1 \div 146097
        doe == z1 - era * 146097
        yoe == (doe - doe \div 1460 + doe \div 36524 - doe \div 146096) \div 365
        doy == doe - (365 * yoe + yoe \div 4 - yoe \div 100)
        mp  == (5 * doy + 2) \div 153
        d   == doy - (153 * mp + 2) \div 5 + 1
        m   == IF mp < 10 THEN mp + 3 ELSE mp - 9
        y   == yoe + era * 400
    IN  <<IF m <= 2 THEN y + 1 ELSE y, m, d>>

\* MakeDay(year, month, day) for a month index 0..12 and any day: a month
\* index of 12 is January of the next year, the day 0 is the last day of the
\* month before, a day past the end of the month runs into the next month.
MakeDay(year, monthIndex, day) ==
    DaysFromCivil(<<IF monthIndex = 12 THEN year + 1 ELSE year,
                    IF monthIndex = 12 THEN 1 ELSE monthIndex + 1,
                    1>>) + day - 1

\* new Date("YYYY-MM-DD"): a date-only string is midnight UTC of the day.
ParseDateString(date) == 24 * DaysFromCivil(date)

\* new Date(year, monthIndex, day): midnight of the day in local time.
LocalMidnight(year, monthIndex, day, tz) == 24 * MakeDay(year, monthIndex, day) - tz

\* The local day <<y, m, d>> of the time value (getFullYear(), getMonth() + 1,
\* getDate()).
LocalDay(time, tz) == CivilFromDays((time + tz) \div 24)

\* setFullYear(year) on the time value: the local year is replaced, the local
\* month, day and time of day are kept.
SetFullYear(time, year, tz) ==
    LET day == LocalDay(time, tz)
    IN  24 * MakeDay(year, day[2] - 1, day[3]) + ((time + tz) % 24) - tz

\* A date as a caller passes it to a query: the string of a date input
\* ("YYYY-MM-DD"), or the Date object new Date(y, m - 1, d) of getPeriodDates.
DateString(date) == [kind |-> "string", date |-> date]
DateObject(date) == [kind |-> "Date", date |-> date]

\* new Date(x) for such an argument, and for the date of a stored record.
NewDate(x, tz) ==
    IF x.kind = "string"
    THEN ParseDateString(x.date)
    ELSE LocalMidnight(x.date[1], x.date[2] - 1, x.date[3], tz)

\* The local day at the instant t of the clock: the clock ticks in days, and
\* its instant 0 is in the last day of January 2024.
Today(t) == CivilFromDays(DaysFromCivil(<<2024, 1, 31>>) + t)

----------------------------------------------------------------------------
\* The Repository's queries.  A range is two arguments startDate and endDate,
\* each << >> (null, not given) or <<x>>, x a date as a caller passes it.

\* new Date(transaction.date): the date of a stored record is the string of
\* the form's date input.
RecordDate(date) == ParseDateString(date)

\* getTransactionsByType(type)
GetTransactionsByType(ls, type) ==
    SelectSeq(GetTransactionsOf(ls), LAMBDA t : t.type = type)

\* getTransactionsByCategory(category)
GetTransactionsByCategory(ls, category) ==
    SelectSeq(GetTransactionsOf(ls), LAMBDA t : t.category = category)

\* transactionDate >= new Date(startDate) && transactionDate <= new Date(endDate)
BetweenDates(date, startDate, endDate, tz) ==
    /\ RecordDate(date) >= NewDate(startDate, tz)
    /\ RecordDate(date) <= NewDate(endDate, tz)

\* getTransactionsByDateRange(startDate, endDate)
GetTransactionsByDateRange(ls, startDate, endDate, tz) ==
    SelectSeq(GetTransactionsOf(ls),
              LAMBDA t : BetweenDates(t.date, startDate, endDate, tz))

\* A filter that applies each bound that is given.
FilterByRangeEachBound(transactions, startDate, endDate, tz) ==
    SelectSeq(transactions,
              LAMBDA t : /\ Len(startDate) = 1 =>
                                RecordDate(t.date) >= NewDate(startDate[1], tz)
                         /\ Len(endDate) = 1 =>
                                RecordDate(t.date) <= NewDate(endDate[1], tz))

\* if (startDate && endDate) transactions = transactions.filter(...)
FilterByRange(transactions, startDate, endDate, tz) ==
    IF Len(startDate) = 1 /\ Len(endDate) = 1
    THEN SelectSeq(transactions,
                   LAMBDA t : BetweenDates(t.date, startDate[1], endDate[1], tz))
    ELSE transactions

\* transactions.reduce((total, t) => total + parseFloat(t.amount), 0)
RECURSIVE ReduceAmounts(_, _)
ReduceAmounts(transactions, total) ==
    IF Len(transactions) = 0
    THEN total
    ELSE ReduceAmounts(Tail(transactions),
                       NumberAdd(total, Head(transactions).amount))

\* getTotalIncome(startDate, endDate)
GetTotalIncome(ls, startDate, endDate, tz) ==
    ReduceAmounts(FilterByRange(GetTransactionsByType(ls, "income"),
                                startDate, endDate, tz), 0)

\* getTotalExpenses(startDate, endDate)
GetTotalExpenses(ls, startDate, endDate, tz) ==
    ReduceAmounts(FilterByRange(GetTransactionsByType(ls, "expense"),
                                startDate, endDate, tz), 0)

\* getNetBalance(startDate, endDate)
GetNetBalance(ls, startDate, endDate, tz) ==
    NumberSubtract(GetTotalIncome(ls, startDate, endDate, tz),
                   GetTotalExpenses(ls, startDate, endDate, tz))

\* The forEach of getSpendingByCategory over the transactions, from the
\* totals categoryTotals: an object is a function on its keys.
RECURSIVE AddToCategoryTotals(_, _)
AddToCategoryTotals(transactions, categoryTotals) ==
    IF Len(transactions) = 0
    THEN categoryTotals
    ELSE LET transaction == Head(transactions)
             zeroed == IF \/ ~Has(categoryTotals, transaction.category)
                          \/ categoryTotals[transaction.category] = 0
                       THEN With(categoryTotals, transaction.category, 0)
                       ELSE categoryTotals
         IN  AddToCategoryTotals(
                 Tail(transactions),
                 With(zeroed, transaction.category,
                      NumberAdd(zeroed[transaction.category], transaction.amount)))

\* Object.keys of the categoryTotals built from the transactions: the
\* categories in the order in which the forEach first meets them.
RECURSIVE CategoryKeys(_, _)
CategoryKeys(transactions, keys) ==
    IF Len(transactions) = 0
    THEN keys
    ELSE CategoryKeys(Tail(transactions),
                      IF Head(transactions).category \in Range(keys)
                      THEN keys
                      ELSE Append(keys, Head(transactions).category))

\* getSpendingByCategory over the transactions of both types.
GetSpendingByCategoryOfAllTypes(ls, startDate, endDate, tz) ==
    AddToCategoryTotals(FilterByRange(GetTransactionsOf(ls), startDate, endDate, tz),
                        << >>)

\* getSpendingByCategory(startDate, endDate)
GetSpendingByCategory(ls, startDate, endDate, tz) ==
    AddToCategoryTotals(FilterByRange(GetTransactionsByType(ls, "expense"),
                                      startDate, endDate, tz),
                        << >>)

\* The key `${year}-${month}` of getMonthlySpendingData, month 1..12.
MonthKey(year, month) == <<year, month>>

\* The forEach of getMonthlySpendingData over the transactions: a record
\* counts in the month of its local day, when the year of its local day is year.
RECURSIVE AddToMonthlyData(_, _, _, _)
AddToMonthlyData(transactions, monthlyData, year, tz) ==
    IF Len(transactions) = 0
    THEN monthlyData
    ELSE LET transaction == Head(transactions)
             day == LocalDay(RecordDate(transaction.date), tz)
             monthKey == MonthKey(year, day[2])
         IN  AddToMonthlyData(
                 Tail(transactions),
                 IF day[1] = year /\ monthKey \in DOMAIN monthlyData
                 THEN [monthlyData EXCEPT ![monthKey] =
                          With(@, transaction.type,
                               NumberAdd(@[transaction.type], transaction.amount))]
                 ELSE monthlyData,
                 year, tz)

\* getMonthlySpendingData(year)
GetMonthlySpendingData(ls, year, tz) ==
    AddToMonthlyData(GetTransactionsOf(ls),
                     [monthKey \in {MonthKey(year, i + 1) : i \in 0..11} |->
                         [income |-> 0, expense |-> 0]],
                     year, tz)

\* The window <<startDate, endDate>> of a budget in getBudgetVsActual, as time
\* values; today is the local day of new Date().
BudgetWindow(budget, today, tz) ==
    IF budget.period = "monthly"
    THEN <<LocalMidnight(today[1], today[2] - 1, 1, tz),
           LocalMidnight(today[1], today[2], 0, tz)>>
    ELSE LET startDate == RecordDate(budget.startDate)
         IN  <<startDate,
               SetFullYear(startDate, LocalDay(startDate, tz)[1] + 1, tz)>>

\* What getBudgetVsActual pushes for a budget.  percentage is
\* (actualSpent / budgetAmount) * 100, kept as the fraction it is.
BudgetVsActualEntry(ls, budget, today, tz) ==
    LET window == BudgetWindow(budget, today, tz)
        categoryTransactions ==
            SelectSeq(GetTransactionsByCategory(ls, budget.category),
                      LAMBDA t : /\ RecordDate(t.date) >= window[1]
                                 /\ RecordDate(t.date) <= window[2]
                                 /\ t.type = "expense")
        actualSpent == ReduceAmounts(categoryTransactions, 0)
    IN  [category     |-> budget.category,
         budgetAmount |-> budget.amount,
         actualSpent  |-> actualSpent,
         remaining    |-> NumberSubtract(budget.amount, actualSpent),
         percentage   |-> [times100 |-> actualSpent, over |-> budget.amount]]

\* getBudgetVsActual()
GetBudgetVsActual(ls, today, tz) ==
    [i \in 1..Len(GetBudgetsOf(ls)) |->
        BudgetVsActualEntry(ls, GetBudgetsOf(ls)[i], today, tz)]

----------------------------------------------------------------------------
\* The queries on a store that holds records: a session reads the
\* transactions (workingOn = "transactions") or compares the budgets with
\* them (workingOn = "budgets").

\* A stored record: what a save of the form's object has written.
Stored(id, form) ==
    Overwrite([id |-> id, createdAt |-> 0, updatedAt |-> 0], form)

\* The transactions a store may hold when its totals are read, around the
\* days 2024-01-01 and 2024-01-31; each amount is another power of two.
StoredTransactions ==
    << Stored("t1", [type |-> "expense", amount |-> 1, category |-> "Food",
                     description |-> "", date |-> <<2023, 12, 31>>]),
       Stored("t2", [type |-> "expense", amount |-> 2, category |-> "Food",
                     description |-> "", date |-> <<2024, 1, 1>>]),
       Stored("t3", [type |-> "income", amount |-> 4, category |-> "Food",
                     description |-> "", date |-> <<2024, 1, 1>>]),
       Stored("t4", [type |-> "expense", amount |-> 8, category |-> "Rent",
                     description |-> "", date |-> <<2024, 1, 31>>]),
       Stored("t5", [type |-> "income", amount |-> 16, category |-> "Salary",
                     description |-> "", date |-> <<2024, 1, 31>>]),
       Stored("t6", [type |-> "expense", amount |-> 32, category |-> "Food",
                     description |-> "", date |-> <<2024, 2, 1>>]) >>

\* The transactions a store may hold when the budgets are compared with them.
BudgetedTransactions ==
    << Stored("t1", [type |-> "expense", amount |-> 1, category |-> "Food",
                     description |-> "", date |-> <<2023, 6, 1>>]),
       Stored("t2", [type |-> "expense", amount |-> 2, category |-> "Food",
                     description |-> "", date |-> <<2023, 12, 15>>]),
       Stored("t3", [type |-> "expense", amount |-> 4, category |-> "Food",
                     description |-> "", date |-> <<2024, 1, 1>>]),
       Stored("t4", [type |-> "expense", amount |-> 8, category |-> "Food",
                     description |-> "", date |-> <<2024, 1, 31>>]),
       Stored("t5", [type |-> "income", amount |-> 16, category |-> "Food",
                     description |-> "", date |-> <<2024, 1, 31>>]),
       Stored("t6", [type |-> "expense", amount |-> 32, category |-> "Food",
                     description |-> "", date |-> <<2024, 2, 1>>]),
       Stored("t7", [type |-> "expense", amount |-> 64, category |-> "Rent",
                     description |-> "", date |-> <<2024, 1, 31>>]),
       Stored("t8", [type |-> "expense", amount |-> 128, category |-> "Food",
                     description |-> "", date |-> <<2024, 6, 1>>]) >>

\* The budgets a store may hold: a monthly one that started in a past month,
\* and an annual one.
StoredBudgets ==
    << Stored("b1", [category |-> "Food", amount |-> 100, period |-> "monthly",
                     startDate |-> <<2023, 12, 1>>]),
       Stored("b2", [category |-> "Food", amount |-> 1200, period |-> "annual",
                     startDate |-> <<2023, 6, 1>>]) >>

\* The records of the list at the indices of the set picked, in their order.
RECURSIVE Pick(_, _)
Pick(list, picked) ==
    IF Len(list) = 0
    THEN << >>
    ELSE LET rest == Pick(SubSeq(list, 1, Len(list) - 1), picked)
         IN  IF Len(list) \in picked THEN Append(rest, list[Len(list)]) ELSE rest

\* The lists of some of the records of the list, in their order.
Selections(list) == {Pick(list, picked) : picked \in SUBSET (1..Len(list))}

\* The state when a query is made: the page has loaded over a store that
\* earlier sessions have filled.
QueryInit ==
    /\ available = TRUE
    /\ editingTransaction = Null
    /\ editingBudget = Null
    /\ inFlight = [tab \in Tabs |-> IdleFrame]
    /\ last = [op |-> "constructor", quotaOk |-> TRUE, ret |-> "void"]
    /\ workingOn \in {"transactions", "budgets"}
    /\ \E transactions \in Selections(IF workingOn = "transactions"
                                     THEN StoredTransactions
                                     ELSE BudgetedTransactions),
          budgets \in Selections(StoredBudgets) :
          /\ workingOn = "transactions" => budgets = << >>
          /\ localStorage =
                [key \in storageKeys |->
                    CASE key = "transactions" -> Stringify(transactions)
                      [] key = "budgets" -> Stringify(budgets)
                      [] OTHER -> Stringify(DefaultCategories)]
    /\ now \in 0..MaxClock

\* The ranges <<startDate, endDate>> as the callers pass them: the strings of
\* the report's two date inputs, or the two Date objects of getPeriodDates for
\* the month.
Ranges ==
    {<<DateString(<<2024, 1, 1>>), DateString(<<2024, 1, 31>>)>>,
     <<DateObject(<<2024, 1, 1>>), DateObject(<<2024, 1, 31>>)>>}

\* The arguments <<startDate, endDate>> of a query whose range may be left
\* out: no range (null, null), a range, or one bound of a range.
RangeArgs ==
    {<< << >>, << >> >>}
    \cup {<< <<range[1]>>, <<range[2]>> >> : range \in Ranges}
    \cup {<< <<DateString(<<2024, 1, 1>>)>>, << >> >>,
          << << >>, <<DateString(<<2024, 1, 31>>)>> >>}

\* The years asked of getMonthlySpendingData.
Years == {2023, 2024}

\* A query returns and changes nothing.  The answer holds what was asked and
\* what was returned: a number under ret, an array or an object under the name
\* the function gives it.
Answered(answer) ==
    /\ last' = answer
    /\ UNCHANGED <<localStorage, available, now, editingTransaction, editingBudget,
                   workingOn, inFlight>>

\* storageManager.getTransactionsByDateRange(startDate, endDate)
QueryTransactionsByDateRange ==
    /\ workingOn = "transactions"
    /\ \E range \in Ranges, tz \in TimeZones :
          Answered([op |-> "getTransactionsByDateRange",
                    startDate |-> <<range[1]>>, endDate |-> <<range[2]>>,
                    timeZone |-> tz,
                    transactions |-> GetTransactionsByDateRange(
                                         localStorage, range[1], range[2], tz)])

\* storageManager.getTotalIncome(startDate, endDate)
QueryTotalIncome ==
    /\ workingOn = "transactions"
    /\ \E args \in RangeArgs, tz \in TimeZones :
          Answered([op |-> "getTotalIncome",
                    startDate |-> args[1], endDate |-> args[2], timeZone |-> tz,
                    ret |-> GetTotalIncome(localStorage, args[1], args[2], tz)])

\* storageManager.getTotalExpenses(startDate, endDate)
QueryTotalExpenses ==
    /\ workingOn = "transactions"
    /\ \E args \in RangeArgs, tz \in TimeZones :
          Answered([op |-> "getTotalExpenses",
                    startDate |-> args[1], endDate |-> args[2], timeZone |-> tz,
                    ret |-> GetTotalExpenses(localStorage, args[1], args[2], tz)])

\* storageManager.getNetBalance(startDate, endDate)
QueryNetBalance ==
    /\ workingOn = "transactions"
    /\ \E args \in RangeArgs, tz \in TimeZones :
          Answered([op |-> "getNetBalance",
                    startDate |-> args[1], endDate |-> args[2], timeZone |-> tz,
                    ret |-> GetNetBalance(localStorage, args[1], args[2], tz)])

\* storageManager.getSpendingByCategory(startDate, endDate)
QuerySpendingByCategory ==
    /\ workingOn = "transactions"
    /\ \E args \in RangeArgs, tz \in TimeZones :
          Answered([op |-> "getSpendingByCategory",
                    startDate |-> args[1], endDate |-> args[2], timeZone |-> tz,
                    categoryTotals |-> GetSpendingByCategory(
                                           localStorage, args[1], args[2], tz),
                    keys |-> CategoryKeys(
                                 FilterByRange(GetTransactionsByType(localStorage, "expense"),
                                               args[1], args[2], tz),
                                 << >>)])

\* storageManager.getMonthlySpendingData(year)
QueryMonthlySpendingData ==
    /\ workingOn = "transactions"
    /\ \E year \in Years, tz \in TimeZones :
          Answered([op |-> "getMonthlySpendingData", year |-> year, timeZone |-> tz,
                    monthlyData |-> GetMonthlySpendingData(localStorage, year, tz)])

\* storageManager.getBudgetVsActual()
QueryBudgetVsActual ==
    /\ workingOn = "budgets"
    /\ \E tz \in TimeZones :
          Answered([op |-> "getBudgetVsActual", today |-> Today(now), timeZone |-> tz,
                    result |-> GetBudgetVsActual(localStorage, Today(now), tz)])

\* The queries.
QueryNext ==
    \/ QueryTransactionsByDateRange
    \/ QueryTotalIncome
    \/ QueryTotalExpenses
    \/ QueryNetBalance
    \/ QuerySpendingByCategory
    \/ QueryMonthlySpendingData
    \/ QueryBudgetVsActual

QuerySpec == QueryInit /\ [][QueryNext]_vars

----------------------------------------------------------------------------
\* The saves as their caller sees them: a save writes to the object it is
\* given, and the caller holds that object after the call.

\* storageManager.saveTransaction(transaction), and the object afterwards
SaveTransactionObject ==
    /\ workingOn = "transactions"
    /\ \E transaction \in SaveArgs(TransactionForms, getTransactions),
          quotaOk \in BOOLEAN :
         \E genId \in GeneratedIds(transaction), c \in ClockReadings(transaction) :
            LET r == SaveTransactionCall(localStorage, transaction, genId,
                                         c[1], c[2], quotaOk)
            IN  /\ localStorage' = r.storage
                /\ now' = c[2]
                /\ last' = [op |-> "saveTransaction", input |-> Payload(transaction),
                            hadId |-> Has(transaction, "id"), obj |-> r.obj,
                            quotaOk |-> quotaOk, ret |-> Bool(r.ret)]
                /\ UNCHANGED <<available, editingTransaction, editingBudget,
                               workingOn, inFlight>>

\* storageManager.saveBudget(budget), and the object afterwards
SaveBudgetObject ==
    /\ workingOn = "budgets"
    /\ \E budget \in SaveArgs(BudgetForms, getBudgets), quotaOk \in BOOLEAN :
         \E genId \in GeneratedIds(budget), c \in ClockReadings(budget) :
            LET r == SaveBudgetCall(localStorage, budget, genId, c[1], c[2], quotaOk)
            IN  /\ localStorage' = r.storage
                /\ now' = c[2]
                /\ last' = [op |-> "saveBudget", input |-> Payload(budget),
                            hadId |-> Has(budget, "id"), obj |-> r.obj,
                            quotaOk |-> quotaOk, ret |-> Bool(r.ret)]
                /\ UNCHANGED <<available, editingTransaction, editingBudget,
                               workingOn, inFlight>>

CallerNext ==
    \/ SaveTransactionObject
    \/ SaveBudgetObject

CallerSpec == Init /\ [][CallerNext]_vars

----------------------------------------------------------------------------
\* The totals of a store that holds a large amount: a sum of its amounts is
\* above MaxExact, where an addition rounds.

\* The transactions such a store may hold: a large expense, small ones of two
\* categories, an income, and an expense dated before January 2024.
LargeTransactions ==
    << Stored("t1", [type |-> "expense", amount |-> MaxExact, category |-> "Rent",
                     description |-> "", date |-> <<2024, 1, 5>>]),
       Stored("t2", [type |-> "expense", amount |-> 1, category |-> "Food",
                     description |-> "", date |-> <<2024, 1, 10>>]),
       Stored("t3", [type |-> "expense", amount |-> 1, category |-> "Food",
                     description |-> "", date |-> <<2024, 1, 20>>]),
       Stored("t4", [type |-> "income", amount |-> 1, category |-> "Salary",
                     description |-> "", date |-> <<2024, 1, 15>>]),
       Stored("t5", [type |-> "expense", amount |-> 2, category |-> "Rent",
                     description |-> "", date |-> <<2024, 1, 25>>]),
       Stored("t6", [type |-> "expense", amount |-> 4, category |-> "Food",
                     description |-> "", date |-> <<2023, 12, 31>>]) >>

AmountsInit ==
    /\ available = TRUE
    /\ editingTransaction = Null
    /\ editingBudget = Null
    /\ inFlight = [tab \in Tabs |-> IdleFrame]
    /\ last = [op |-> "constructor", quotaOk |-> TRUE, ret |-> "void"]
    /\ workingOn = "transactions"
    /\ \E transactions \in Selections(LargeTransactions) :
          localStorage =
              [key \in storageKeys |->
                  CASE key = "transactions" -> Stringify(transactions)
                    [] key = "budgets" -> Stringify(<< >>)
                    [] OTHER -> Stringify(DefaultCategories)]
    /\ now \in 0..MaxClock

\* The two queries of the expenses.
AmountsNext ==
    \/ QueryTotalExpenses
    \/ QuerySpendingByCategory

AmountsSpec == AmountsInit /\ [][AmountsNext]_vars

----------------------------------------------------------------------------
\* Properties

\* No two records of the list share an id.
UniqueIds(list) ==
    \A i, j \in 1..Len(list) :
        (i # j /\ Has(list[i], "id") /\ Has(list[j], "id")) => list[i].id # list[j].id

\* C1: in every reachable state no two transactions share an id and no two
\* budgets share an id.
C1_IdsUnique == UniqueIds(getTransactions) /\ UniqueIds(getBudgets)

\* The fields a save adds to a record.
Stamps == {"id", "createdAt", "updatedAt"}

\* got is the record input with the stamps added and nothing else changed.
EqualExceptStamps(got, input) ==
    /\ DOMAIN got = DOMAIN input \cup Stamps
    /\ \A k \in DOMAIN input : got[k] = input[k]

\* C2: after a successful save of a record that had no id, getTransactionById
\* (getBudgetById) with the assigned id returns a record with the input's
\* fields unchanged and only id, createdAt and updatedAt added.
C2_SaveThenGetById ==
    /\ (last.op = "saveTransaction" /\ ~last.hadId /\ last.ret = "true") =>
            LET got == getTransactionById(last.id)
            IN  Len(got) = 1 /\ EqualExceptStamps(got[1], last.input)
    /\ (last.op = "saveBudget" /\ ~last.hadId /\ last.ret = "true") =>
            LET got == getBudgetById(last.id)
            IN  Len(got) = 1 /\ EqualExceptStamps(got[1], last.input)

\* C2's case: a record without id was saved into a collection that held another.
C2_Witness ==
    /\ last.op = "saveTransaction" /\ ~last.hadId /\ last.ret = "true"
    /\ Len(getTransactions) = 2
    /\ getTransactions[2].id = last.id

\* A successful save of a record of the given id, stamped at the instant at,
\* took the list old to the list new: in place when old held the id, at the
\* end when it did not.
SavedInPlaceOrAppended(old, new, id, at) ==
    IF \E i \in 1..Len(old) : IdIs(old[i], id)
    THEN /\ Len(new) = Len(old)
         /\ \E i \in 1..Len(old) :
               /\ IdIs(old[i], id) /\ IdIs(new[i], id)
               /\ new[i].updatedAt = at
               /\ \A j \in 1..Len(old) : j # i => new[j] = old[j]
    ELSE /\ Len(new) = Len(old) + 1
         /\ IdIs(new[Len(new)], id)
         /\ new[Len(new)].updatedAt = at
         /\ \A j \in 1..Len(old) : new[j] = old[j]

\* C3: a save whose id is the id of a stored record replaces that record in
\* place and the collection keeps its size; the record is appended, and the
\* size grows by one, only when no stored record has the id.
C3_ReplaceInPlaceElseAppend ==
    [][/\ (last'.op = "saveTransaction" /\ last'.ret = "true") =>
            SavedInPlaceOrAppended(getTransactions, getTransactions', last'.id, now')
       /\ (last'.op = "saveTransaction" /\ last'.ret = "false") =>
            Len(getTransactions') = Len(getTransactions)
       /\ (last'.op = "saveBudget" /\ last'.ret = "true") =>
            SavedInPlaceOrAppended(getBudgets, getBudgets', last'.id, now')
       /\ (last'.op = "saveBudget" /\ last'.ret = "false") =>
            Len(getBudgets') = Len(getBudgets)
      ]_vars

\* C3's case: the first of two stored records was saved again under its id.
C3_Witness ==
    /\ last.op = "saveTransaction" /\ last.hadId /\ last.ret = "true"
    /\ Len(getTransactions) = 2
    /\ getTransactions[1].id = last.id
    /\ getTransactions[2].id # last.id

\* A successful save under the id of a stored record that has a createdAt
\* leaves that createdAt as it was and sets updatedAt to the instant of the save.
KeepsCreatedAt(old, new, at) ==
    (Len(old) = 1 /\ Has(old[1], "createdAt")) =>
        /\ Len(new) = 1
        /\ Has(new[1], "createdAt")
        /\ new[1].createdAt = old[1].createdAt
        /\ new[1].updatedAt = at

\* C4: createdAt is fixed at the first save: a later save of the same id, the
\* edit submitted through the form included, leaves the stored createdAt as it
\* was, and sets updatedAt to the instant of the later save.
C4_CreatedAtFixed ==
    [][/\ (last'.op = "handleTransactionSubmit" /\ last'.hadId /\ last'.ret = "true") =>
            KeepsCreatedAt(getTransactionById(last'.id),
                           getTransactionById(last.id)', now')
       /\ (last'.op = "handleBudgetSubmit" /\ last'.hadId /\ last'.ret = "true") =>
            KeepsCreatedAt(getBudgetById(last'.id), getBudgetById(last.id)', now')
      ]_vars

\* Every record of the list has both timestamps, updatedAt not before createdAt.
Timestamped(list) ==
    \A i \in 1..Len(list) :
        /\ Has(list[i], "createdAt")
        /\ Has(list[i], "updatedAt")
        /\ list[i].updatedAt >= list[i].createdAt

\* C5: in every reachable state every stored transaction and budget has both
\* timestamps and updatedAt >= createdAt.
C5_TimestampsOrdered == Timestamped(getTransactions) /\ Timestamped(getBudgets)

\* The list has no record of the id.
NoRecordOf(list, id) == \A i \in 1..Len(list) : ~IdIs(list[i], id)

\* C6, as the spec states it: a delete returns success, a delete of an id that
\* is not present leaves the collection as it was, and so does the second of
\* two deletes of the same id.
C6_DeleteIdempotent ==
    [][/\ last'.op = "deleteTransaction" =>
            /\ last'.ret = "true"
            /\ NoRecordOf(getTransactions, last'.id) => getTransactions' = getTransactions
            /\ (last.op = "deleteTransaction" /\ last.id = last'.id) =>
                    getTransactions' = getTransactions
       /\ last'.op = "deleteBudget" =>
            /\ last'.ret = "true"
            /\ NoRecordOf(getBudgets, last'.id) => getBudgets' = getBudgets
            /\ (last.op = "deleteBudget" /\ last.id = last'.id) =>
                    getBudgets' = getBudgets
      ]_vars

\* A delete of the id took the list old to the list new and returned ret;
\* wrote tells whether the write of the collection succeeded, and again
\* whether the call before it was a successful delete of the same id.
DeletedIdempotently(old, new, id, ret, wrote, again) ==
    /\ ret = Bool(wrote)
    /\ wrote => NoRecordOf(new, id)
    /\ (wrote /\ NoRecordOf(old, id)) => new = old
    /\ (wrote /\ again) => new = old
    /\ ~wrote => new = old

\* C6, amended: a delete returns what the write of the collection returns.
\* When the write succeeds, the delete returns success, a delete of an id that
\* is not present leaves the collection as it was, and so does the second of
\* two deletes of the same id; when the write fails, the delete returns false
\* and the collection is as it was.
C6_DeleteIdempotentWhenWritten ==
    [][/\ last'.op = "deleteTransaction" =>
            DeletedIdempotently(getTransactions, getTransactions', last'.id, last'.ret,
                available /\ last'.quotaOk,
                last.op = "deleteTransaction" /\ last.id = last'.id /\ last.ret = "true")
       /\ last'.op = "deleteBudget" =>
            DeletedIdempotently(getBudgets, getBudgets', last'.id, last'.ret,
                available /\ last'.quotaOk,
                last.op = "deleteBudget" /\ last.id = last'.id /\ last.ret = "true")
      ]_vars

\* C6's case: a delete succeeded on a collection that holds a record of
\* another id and none of the deleted id.
C6_Witness ==
    /\ last.op = "deleteTransaction" /\ last.ret = "true"
    /\ Len(getTransactions) = 1
    /\ NoRecordOf(getTransactions, last.id)

\* The commands that write one collection.
WritingOps ==
    {"saveTransaction", "saveBudget", "deleteTransaction", "deleteBudget",
     "saveCategories"}

\* C7: when the write of the collection fails in saveTransaction, saveBudget,
\* deleteTransaction, deleteBudget or saveCategories, the call returns false and
\* what is stored is what was stored before the call.
C7_FailedWriteChangesNothing ==
    [][(last'.op \in WritingOps /\ ~(available /\ last'.quotaOk)) =>
            /\ last'.ret = "false"
            /\ localStorage' = localStorage
      ]_vars

\* C7's case: a save failed for lack of room over a collection that holds a record.
C7_Witness ==
    /\ last.op = "saveTransaction" /\ last.ret = "false"
    /\ available /\ ~last.quotaOk
    /\ Len(getTransactions) >= 1

\* C8: importData returns false when the write of a collection of the snapshot
\* failed.
C8_ImportReportsFailure ==
    (last.op = "importData" /\ last.failed # {}) => last.ret = "false"

\* C9: importData leaves the collections that the snapshot does not have as
\* they were.
C9_ImportLeavesMissingKeys ==
    [][last'.op = "importData" =>
            \A key \in storageKeys \ last'.keys : localStorage'[key] = localStorage[key]
      ]_vars

\* C9's case: a snapshot of the transactions alone was imported over stored
\* budgets and categories.
C9_Witness ==
    /\ last.op = "importData" /\ last.keys = {"transactions"} /\ last.failed = {}
    /\ Len(getTransactions) = 2
    /\ Len(getBudgets) = 2
    /\ getCategories = CustomCategories

\* C10: no command raises an exception when the medium fails, and the reads
\* return empty collections.
C10_NeverThrows ==
    /\ last.ret # "throw"
    /\ ~available =>
          (getTransactions = << >> /\ getBudgets = << >> /\ getCategories = << >>)

\* The item old of the categories became the item new in a construction:
\* an item that holds a value other than the empty array stays as it is, and
\* an item that changes becomes the defaults.
SeededOnlyWhenEmpty(old, new) ==
    /\ (old.kind = "json" /\ ~LengthIsZero(old.val)) => new = old
    /\ new # old => new = Stringify(DefaultCategories)

\* C11: the categories are seeded with the defaults only when the collection
\* is empty or absent: a construction of the Repository over a store whose
\* categories were written by saveCategories or importData leaves the stored
\* value as it is.
C11_SeededOnlyWhenEmpty ==
    [][last'.op = "constructor" =>
            SeededOnlyWhenEmpty(localStorage.categories, localStorage'.categories)
      ]_vars

\* C11's case: the Repository was constructed over categories of the user's.
C11_Witness ==
    /\ last.op = "constructor" /\ available /\ last.quotaOk
    /\ getCategories = CustomCategories

\* The categories are exactly the default mapping.
IsDefaults(categories) ==
    /\ ~LengthIsZero(categories)
    /\ categories = DefaultCategories

\* C12, as the spec states it: after clearAllData() has returned, whatever
\* the state before, getTransactions() and getBudgets() return empty sequences
\* and getCategories() returns exactly the default mapping.
C12_ResetLeavesDefaults ==
    (last.op = "clearAllData" /\ last.ret = "void") =>
        /\ getTransactions = << >>
        /\ getBudgets = << >>
        /\ IsDefaults(getCategories)

\* C12, amended: after clearAllData(), whatever the state before,
\* getTransactions() and getBudgets() return empty sequences; getCategories()
\* returns exactly the default mapping when the write of the defaults
\* succeeds, and the empty collection when that write fails or the medium is
\* unavailable (the call has then raised, before erasing anything).
C12_ResetLeavesDefaultsWhenSeeded ==
    last.op = "clearAllData" =>
        /\ getTransactions = << >>
        /\ getBudgets = << >>
        /\ IF available /\ last.quotaOk
           THEN IsDefaults(getCategories)
           ELSE LengthIsZero(getCategories)

\* C12's case: a reset that seeded the defaults.
C12_Witness ==
    /\ last.op = "clearAllData" /\ last.ret = "void" /\ last.quotaOk
    /\ localStorage.transactions = AbsentItem
    /\ localStorage.budgets = AbsentItem
    /\ IsDefaults(getCategories)

\* No collection of the storage ls has ever been written.
NeverWritten(ls) == \A key \in storageKeys : ls[key] = AbsentItem

\* C13, as the spec states it: after the Repository is constructed over a
\* store that can be read and of which no collection was ever written,
\* getCategories() returns the default expense and income lists in their
\* order, and getTransactions() and getBudgets() return empty sequences.
C13_FreshStoreDefaults ==
    [][(last'.op = "constructor" /\ available /\ NeverWritten(localStorage)) =>
            /\ getTransactions' = << >>
            /\ getBudgets' = << >>
            /\ IsDefaults(getCategories')
      ]_vars

\* C13, amended: after the Repository is constructed over a store of which no
\* collection was ever written, getTransactions() and getBudgets() return
\* empty sequences; getCategories() returns the default expense and income
\* lists in their order when the write of the defaults succeeds, and the empty
\* collection when it fails.
C13_FreshStoreDefaultsWhenSeeded ==
    [][(last'.op = "constructor" /\ NeverWritten(localStorage)) =>
            /\ getTransactions' = << >>
            /\ getBudgets' = << >>
            /\ IF available /\ last'.quotaOk
               THEN IsDefaults(getCategories')
               ELSE LengthIsZero(getCategories')
      ]_vars

\* C13's case: the constructor has seeded a store that holds nothing else.
C13_Witness ==
    /\ last.op = "constructor" /\ available /\ last.quotaOk
    /\ localStorage.transactions = AbsentItem
    /\ localStorage.budgets = AbsentItem
    /\ localStorage.categories = Stringify(DefaultCategories)

\* The tab p, in this step, writes the array it read and returns success,
\* while the tab q has returned success from a save whose record is stored
\* now and was not in the array that p read: p read before q wrote.
WritesOverSaveOf(p, q) ==
    /\ p # q
    /\ inFlight[p].pc = "read" /\ inFlight'[p].pc = "done" /\ inFlight'[p].ret
    /\ inFlight[q].pc = "done" /\ inFlight[q].ret
    /\ NoRecordOf(inFlight[p].transactions, inFlight[q].id)
    /\ ~NoRecordOf(getTransactions, inFlight[q].id)
    /\ inFlight'[p].id # inFlight[q].id

\* C14: two saves against the transactions whose reads and writes interleave
\* end with the record of one writer only, although both calls returned
\* success: the write of the tab that read before the other wrote stores its
\* own record and drops the other's, and nothing prevents the interleaving.
C14_InterleavedSavesLoseUpdate ==
    [][\A p, q \in Tabs :
          WritesOverSaveOf(p, q) =>
              /\ ~NoRecordOf(getTransactions', inFlight'[p].id)
              /\ NoRecordOf(getTransactions', inFlight[q].id)
              /\ inFlight'[q] = inFlight[q]
      ]_vars

\* C14's case, the lost update: both tabs have returned success from a save,
\* and the collection holds the record of one and not of the other.
C14_Witness ==
    \E p, q \in Tabs :
        /\ inFlight[p].pc = "done" /\ inFlight[p].ret
        /\ inFlight[q].pc = "done" /\ inFlight[q].ret
        /\ inFlight[p].id # inFlight[q].id
        /\ ~NoRecordOf(getTransactions, inFlight[p].id)
        /\ NoRecordOf(getTransactions, inFlight[q].id)

\* The calendar day a is not after the calendar day b.
NotAfter(a, b) ==
    \/ a[1] < b[1]
    \/ a[1] = b[1] /\ a[2] < b[2]
    \/ a[1] = b[1] /\ a[2] = b[2] /\ a[3] <= b[3]

\* The query was made with a range, or with none.
WithRange(query) == Len(query.startDate) = 1 /\ Len(query.endDate) = 1
WithoutRange(query) == Len(query.startDate) = 0 /\ Len(query.endDate) = 0

\* The calendar day date lies in the range of the query, both ends included;
\* every day does when the query has no range.
InRangeOf(query, date) ==
    WithRange(query) =>
        /\ NotAfter(query.startDate[1].date, date)
        /\ NotAfter(date, query.endDate[1].date)

\* The stored transactions of the type that match the range of the query, as
\* the set of their indices.
Matching(query, type) ==
    {i \in 1..Len(getTransactions) :
        /\ getTransactions[i].type = type
        /\ InRangeOf(query, getTransactions[i].date)}

\* The sum of the amounts of the stored transactions at the indices.
RECURSIVE SumOfAmounts(_)
SumOfAmounts(indices) ==
    IF indices = {}
    THEN 0
    ELSE LET i == CHOOSE i \in indices : TRUE
         IN  getTransactions[i].amount + SumOfAmounts(indices \ {i})

\* C15: getTotalIncome (getTotalExpenses) returns the sum of the amounts of
\* the income (expense) transactions whose date lies in the range, both ends
\* included, of all of them when no range is given, and 0 when none matches;
\* getNetBalance returns the income total less the expense total.
C15_TotalsSumMatching ==
    /\ (last.op = "getTotalIncome" /\ (WithRange(last) \/ WithoutRange(last))) =>
            last.ret = SumOfAmounts(Matching(last, "income"))
    /\ (last.op = "getTotalExpenses" /\ (WithRange(last) \/ WithoutRange(last))) =>
            last.ret = SumOfAmounts(Matching(last, "expense"))
    /\ (last.op = "getNetBalance" /\ (WithRange(last) \/ WithoutRange(last))) =>
            last.ret = SumOfAmounts(Matching(last, "income"))
                         - SumOfAmounts(Matching(last, "expense"))

\* The stored transactions dated in the range of the query, both ends included,
\* in stored order.
DatedInRange(query) ==
    SelectSeq(getTransactions, LAMBDA t : InRangeOf(query, t.date))

\* C16: a date-range query is inclusive at both ends: getTransactionsByDateRange
\* returns exactly the stored transactions dated from startDate to endDate, the
\* ones dated startDate or endDate included and the ones dated outside left
\* out, and the ranged totals count exactly the same transactions.
C16_RangeInclusiveAtBothEnds ==
    /\ last.op = "getTransactionsByDateRange" =>
            last.transactions = DatedInRange(last)
    /\ (last.op \in {"getTotalIncome", "getTotalExpenses"} /\ WithRange(last)) =>
            last.ret = ReduceAmounts(
                           SelectSeq(DatedInRange(last),
                                     LAMBDA t : t.type = (IF last.op = "getTotalIncome"
                                                          THEN "income" ELSE "expense")),
                           0)

\* The categories of the stored expense transactions that match the range of
\* the query.
SpentCategories(query) ==
    {getTransactions[i].category : i \in Matching(query, "expense")}

\* C17: getSpendingByCategory returns a mapping whose keys are exactly the
\* categories of the expense transactions matching the range, each mapped to
\* the sum of the amounts of those transactions; a category without a matching
\* expense is absent, and income transactions add nothing.
C17_SpendingByCategoryKeys ==
    (last.op = "getSpendingByCategory" /\ (WithRange(last) \/ WithoutRange(last))) =>
        /\ DOMAIN last.categoryTotals = SpentCategories(last)
        /\ \A category \in SpentCategories(last) :
              last.categoryTotals[category] =
                  SumOfAmounts({i \in Matching(last, "expense") :
                                   getTransactions[i].category = category})

\* The stored transactions of the type dated in the month of the year, as the
\* set of their indices.
DatedInMonth(year, month, type) ==
    {i \in 1..Len(getTransactions) :
        /\ getTransactions[i].type = type
        /\ getTransactions[i].date[1] = year
        /\ getTransactions[i].date[2] = month}

\* C18: getMonthlySpendingData(year) returns exactly 12 entries, one for each
\* month of the year, whatever the store holds; the entry of a month holds the
\* sum of the income and the sum of the expenses dated in that month of that
\* year, both 0 when there are none, and the transactions of other years add
\* nothing.
C18_MonthlySeriesTwelveEntries ==
    last.op = "getMonthlySpendingData" =>
        /\ DOMAIN last.monthlyData = {MonthKey(last.year, month) : month \in 1..12}
        /\ Cardinality(DOMAIN last.monthlyData) = 12
        /\ \A month \in 1..12 :
              last.monthlyData[MonthKey(last.year, month)] =
                  [income |-> SumOfAmounts(DatedInMonth(last.year, month, "income")),
                   expense |-> SumOfAmounts(DatedInMonth(last.year, month, "expense"))]

\* The stored expenses of the category that satisfy the test on their date, as
\* the set of their indices.
ExpensesOf(category, Dated(_)) ==
    {i \in 1..Len(getTransactions) :
        /\ getTransactions[i].type = "expense"
        /\ getTransactions[i].category = category
        /\ Dated(getTransactions[i].date)}

\* The calendar day is in the month of the day today.
InMonthOf(today, date) == date[1] = today[1] /\ date[2] = today[2]

\* C19: for a monthly budget, getBudgetVsActual reports as actualSpent the sum
\* of the expenses of the budget's category dated in the current calendar
\* month, whatever the budget's startDate: an expense dated in the month of
\* startDate and not in the current month is not counted, one dated in the
\* current month is.
C19_MonthlyBudgetCurrentMonth ==
    last.op = "getBudgetVsActual" =>
        \A i \in 1..Len(getBudgets) :
            getBudgets[i].period = "monthly" =>
                last.result[i].actualSpent =
                    SumOfAmounts(ExpensesOf(getBudgets[i].category,
                                            LAMBDA date : InMonthOf(last.today, date)))

\* The calendar day is in the year that starts on startDate: on startDate or
\* after it, and before the same day of the next year.
InYearFrom(startDate, date) ==
    /\ NotAfter(startDate, date)
    /\ ~NotAfter(<<startDate[1] + 1, startDate[2], startDate[3]>>, date)

\* C20: for an annual budget, getBudgetVsActual reports as actualSpent the sum
\* of the expenses of the budget's category dated in the half-open window from
\* startDate to startDate + 1 year: an expense dated exactly startDate is
\* counted, one dated exactly startDate + 1 year is not.
C20_AnnualBudgetHalfOpenWindow ==
    last.op = "getBudgetVsActual" =>
        \A i \in 1..Len(getBudgets) :
            getBudgets[i].period = "annual" =>
                last.result[i].actualSpent =
                    SumOfAmounts(ExpensesOf(getBudgets[i].category,
                                            LAMBDA date : InYearFrom(getBudgets[i].startDate, date)))

\* The stored budgets of the category, as the set of their indices.
BudgetsOf(category) ==
    {i \in 1..Len(getBudgets) : getBudgets[i].category = category}

\* C21: duplicate budgets of a category are accepted and the last save wins:
\* once a save has stored a budget of a category of which another record is
\* stored too, getBudgetByCategory returns the budget that was saved last.
C21_LastSavedBudgetWins ==
    (/\ last.op = "saveBudget" /\ last.ret = "true"
     /\ Cardinality(BudgetsOf(last.input.category)) >= 2) =>
        LET got == getBudgetByCategory(last.input.category)
        IN  Len(got) = 1 /\ got[1].id = last.id

\* C22: when a save of a record without id fails to write, it returns false
\* and leaves what is stored as it was, and yet the object passed in carries
\* the generated id, createdAt and updatedAt after the call.
C22_FailedSaveStampsObject ==
    [][(/\ last'.op \in {"saveTransaction", "saveBudget"}
        /\ ~last'.hadId
        /\ ~(available /\ last'.quotaOk)) =>
            /\ last'.ret = "false"
            /\ localStorage' = localStorage
            /\ DOMAIN last'.obj = DOMAIN last'.input \cup Stamps
            /\ last'.obj.id \in Ids
            /\ last'.obj.createdAt \in now..now'
            /\ last'.obj.updatedAt = now'
            /\ \A k \in DOMAIN last'.input : last'.obj[k] = last'.input[k]
      ]_vars

\* C22's case: the save of a budget without id failed for lack of room over a
\* collection that holds a budget, and the object came back with an id that
\* no stored budget has.
C22_Witness ==
    /\ last.op = "saveBudget" /\ ~last.hadId /\ last.ret = "false"
    /\ available /\ ~last.quotaOk
    /\ Len(getBudgets) >= 1
    /\ Len(getBudgetById(last.obj.id)) = 0
    /\ Has(last.obj, "createdAt") /\ Has(last.obj, "updatedAt")

\* The deletes of the application.
AppDeletes == {"BudgetApp.deleteTransaction", "BudgetApp.deleteBudget"}

\* C23: the application calls the storage manager's deleteTransaction or
\* deleteBudget only once the user has confirmed: when the confirmation is
\* declined no delete is called (nothing is returned by one) and what is
\* stored stays as it was.
C23_DeleteOnlyWhenConfirmed ==
    [][(last'.op \in AppDeletes /\ ~last'.confirmed) =>
            /\ last'.ret = "void"
            /\ localStorage' = localStorage
      ]_vars

\* C23's case: the user declined the deletion of a transaction that is stored.
C23_Witness ==
    /\ last.op = "BudgetApp.deleteTransaction" /\ ~last.confirmed
    /\ available
    /\ Len(getTransactionById(last.id)) = 1

\* The records of the list other than those of the id, in their order.
WithoutId(list, id) == SelectSeq(list, LAMBDA record : ~IdIs(record, id))

\* A successful delete of the id took the list old to the list new: no record
\* of the id is left, at most one record is gone, and the other records are
\* all there, unchanged and in their order.
DeletedAtMostOne(old, new, id) ==
    /\ \A i \in 1..Len(new) : ~IdIs(new[i], id)
    /\ Len(old) - Len(new) \in {0, 1}
    /\ new = WithoutId(old, id)

\* C24: after a successful deleteTransaction(id) or deleteBudget(id) no record
\* of the id is in the collection, at most one record was removed, and every
\* other record is still there with the same content and in the same order.
C24_DeleteRemovesOnlyThatId ==
    [][/\ (last'.op = "deleteTransaction" /\ last'.ret = "true") =>
              DeletedAtMostOne(getTransactions, getTransactions', last'.id)
       /\ (last'.op = "deleteBudget" /\ last'.ret = "true") =>
              DeletedAtMostOne(getBudgets, getBudgets', last'.id)
      ]_vars

\* The calendar day is in the window of the budget on the day today: the month
\* of today for a monthly budget, the year from startDate, its last day left
\* out, for an annual one.
InWindowOf(budget, today, date) ==
    IF budget.period = "monthly"
    THEN InMonthOf(today, date)
    ELSE InYearFrom(budget.startDate, date)

\* C25: getBudgetVsActual returns one entry for each stored budget, in stored
\* order, with the budget's category, budgetAmount equal to the budget's
\* amount, actualSpent equal to the sum of the expenses of the budget's
\* category dated in its window, income of that category left out, and
\* remaining equal to budgetAmount less actualSpent.
C25_BudgetVsActualEntries ==
    last.op = "getBudgetVsActual" =>
        /\ Len(last.result) = Len(getBudgets)
        /\ \A i \in 1..Len(getBudgets) :
              LET budget == getBudgets[i]
                  entry == last.result[i]
              IN  /\ entry.category = budget.category
                  /\ entry.budgetAmount = budget.amount
                  /\ entry.actualSpent =
                        SumOfAmounts(ExpensesOf(budget.category,
                                                LAMBDA date : InWindowOf(budget, last.today, date)))
                  /\ entry.remaining = entry.budgetAmount - entry.actualSpent

\* C26: importData does not roll back: when the write of one collection fails
\* after the write of another has succeeded in the same call, the collection
\* that was written holds the imported value and the one whose write failed
\* holds what it held before.
C26_ImportHasNoRollback ==
    [][(/\ last'.op = "importData"
        /\ last'.failed # {}
        /\ last'.keys \ last'.failed # {}) =>
            \A key \in last'.keys :
                localStorage'[key] = IF key \in last'.failed
                                     THEN localStorage[key]
                                     ELSE Stringify(last'.data[key])
      ]_vars

\* C26's case: after a first import of transactions and budgets, a second one
\* with other transactions and other budgets wrote the transactions and failed
\* to write the budgets.
C26_Witness ==
    /\ last.op = "importData" /\ last.failed = {"budgets"}
    /\ "transactions" \in last.keys
    /\ Len(last.data.transactions) = 2
    /\ getTransactions = last.data.transactions
    /\ Len(getBudgets) = 2
    /\ getBudgets # last.data.budgets

\* A step of the application with the editing state editing (of the collection
\* old before the step and new after it), whose form submit is the operation
\* submit, whose edit is the operation edit and whose modal is opened by the
\* operation open, treats the editing state as C27 says.
EditingStateKept(editing, editingAfter, old, new, submit, edit, open) ==
    \* After the modal is opened, the modals are closed or a submit (of either
    \* form) succeeds, nothing is being edited.
    /\ (\/ last'.op \in {open, "closeModals"}
        \/ last'.op \in {"handleTransactionSubmit", "handleBudgetSubmit"}
              /\ last'.ret = "true") => editingAfter = Null
    \* A submit while nothing is being edited carries no id, and appends a new
    \* record when it succeeds (generateId returning an id that no stored
    \* record has).
    /\ (last'.op = submit /\ editing = Null) =>
            /\ ~last'.hadId
            /\ (last'.ret = "true" /\ NoRecordOf(old, last'.id)) =>
                    /\ Len(new) = Len(old) + 1
                    /\ SubSeq(new, 1, Len(old)) = old
                    /\ IdIs(new[Len(new)], last'.id)
    \* A submit carries an id only while a record is being edited, and the id
    \* is that one: only then does it replace a stored record with what was
    \* submitted.
    /\ (last'.op = submit /\ last'.hadId) =>
            /\ editing # Null
            /\ last'.id = editing
    \* The editing state is set only by the edit of an id that is stored, and
    \* the latest such edit sets it.
    /\ (editingAfter # Null /\ editingAfter # editing) =>
            /\ last'.op = edit
            /\ last'.id = editingAfter
    /\ last'.op = edit =>
            editingAfter = IF NoRecordOf(old, last'.id) THEN editing ELSE last'.id
    \* A failed save leaves the editing state as it was.
    /\ (last'.op \in {"handleTransactionSubmit", "handleBudgetSubmit"}
            /\ last'.ret = "false") => editingAfter = editing

\* C27: in BudgetApp, after openTransactionModal, closeModals or a successful
\* submit editingTransaction is null, so that the next transaction submit
\* carries no id and appends a new record; a submit replaces a stored record
\* only while editingTransaction holds the id set by the latest editTransaction
\* of a stored id; a failed save leaves editingTransaction set, so that a retry
\* carries the same id.  The same holds of editingBudget.
C27_EditingStateDecidesTarget ==
    [][/\ EditingStateKept(editingTransaction, editingTransaction',
                           getTransactions, getTransactions',
                           "handleTransactionSubmit", "editTransaction",
                           "openTransactionModal")
       /\ EditingStateKept(editingBudget, editingBudget',
                           getBudgets, getBudgets',
                           "handleBudgetSubmit", "editBudget", "openBudgetModal")
      ]_vars

\* C27's case: the submit of an edited transaction failed and left the record
\* and the editing state as they were, for a retry.
C27_Witness ==
    /\ last.op = "handleTransactionSubmit" /\ last.hadId /\ last.ret = "false"
    /\ available
    /\ editingTransaction = last.id
    /\ Len(getTransactions) = 2
    /\ Len(getTransactionById(last.id)) = 1
    /\ Payload(getTransactionById(last.id)[1]) # last.input

\* The query was made with exactly one bound of a range.
WithOneBound(query) == Len(query.startDate) + Len(query.endDate) = 1

\* C28: getTotalIncome, getTotalExpenses and getSpendingByCategory filter by
\* date only when both startDate and endDate are given: called with exactly
\* one of them they return what the call without a range returns.
C28_OneBoundIsNoRange ==
    /\ (last.op = "getTotalIncome" /\ WithOneBound(last)) =>
            last.ret = GetTotalIncome(localStorage, << >>, << >>, last.timeZone)
    /\ (last.op = "getTotalExpenses" /\ WithOneBound(last)) =>
            last.ret = GetTotalExpenses(localStorage, << >>, << >>, last.timeZone)
    /\ (last.op = "getSpendingByCategory" /\ WithOneBound(last)) =>
            last.categoryTotals =
                GetSpendingByCategory(localStorage, << >>, << >>, last.timeZone)

\* C28's case: getTotalExpenses was called with the start date alone over a
\* store with an expense dated before it, and the expense is in the total.
C28_Witness ==
    /\ last.op = "getTotalExpenses"
    /\ Len(last.startDate) = 1 /\ Len(last.endDate) = 0
    /\ \E i \in 1..Len(getTransactions) :
          /\ getTransactions[i].type = "expense"
          /\ ~NotAfter(last.startDate[1].date, getTransactions[i].date)
    /\ last.ret = SumOfAmounts({i \in 1..Len(getTransactions) :
                                   getTransactions[i].type = "expense"})
    /\ last.ret > 0

\* The sum of the values of the object totals, added up as Numbers in the
\* order of its keys.
RECURSIVE SumOfValues(_, _, _)
SumOfValues(totals, keys, sum) ==
    IF Len(keys) = 0
    THEN sum
    ELSE SumOfValues(totals, Tail(keys), NumberAdd(sum, totals[Head(keys)]))

\* What getTotalExpenses returns for the store and the arguments of the query.
TotalExpensesOf(query) ==
    GetTotalExpenses(localStorage, query.startDate, query.endDate, query.timeZone)

\* C29, as stated: for every store and every range the values of
\* getSpendingByCategory(range) add up to getTotalExpenses(range).
C29_CategoryTotalsAddUp ==
    last.op = "getSpendingByCategory" =>
        /\ Range(last.keys) = DOMAIN last.categoryTotals
        /\ SumOfValues(last.categoryTotals, last.keys, 0) = TotalExpensesOf(last)

\* No addition of the stored expenses rounds: their amounts add up to a whole
\* number that is a Number with all the whole numbers below it.
ExpensesAddExactly ==
    SumOfAmounts({i \in 1..Len(getTransactions) :
                     getTransactions[i].type = "expense"}) <= MaxExact

\* C29, amended: for every store whose expense amounts are added without
\* rounding, and every range, the values of getSpendingByCategory(range) add
\* up to getTotalExpenses(range).
C29_CategoryTotalsAddUpWhenExact ==
    (last.op = "getSpendingByCategory" /\ ExpensesAddExactly) =>
        /\ Range(last.keys) = DOMAIN last.categoryTotals
        /\ SumOfValues(last.categoryTotals, last.keys, 0) = TotalExpensesOf(last)

\* C29's case: the spending of a range was asked over a store with expenses of
\* two categories in the range, one before it and an income, none of them large.
C29_Witness ==
    /\ last.op = "getSpendingByCategory" /\ WithRange(last)
    /\ ExpensesAddExactly
    /\ Len(last.keys) = 2
    /\ Len(getTransactions) = 5
    /\ TotalExpensesOf(last) = 4

====
